---- MODULE Spec2Model ----
(***************************************************************************)
(* CurricuLab AI: the LLM invocation and structured-output recovery        *)
(* pipeline.                                                               *)
(*   src/src/llm/client.py  GeminiClient (__init__, generate,              *)
(*                          generate_with_retry)                           *)
(*   src/Home.py            initialize_components, the career-path and the *)
(*                          course-recommender form handlers               *)
(*   src/check_quota.py     the diagnostic probe's error classification    *)
(*                                                                         *)
(* Texts are sequences of tokens.  An error message is a sequence of the   *)
(* words the code searches for; a reply is a sequence of lexemes (fences,  *)
(* brackets, whitespace, prose, a scalar).                                 *)
(***************************************************************************)
EXTENDS Integers, Sequences, FiniteSets, TLC

VARIABLES
    rs,          \* the running generate_with_retry call (its locals and its trace)
    twin,        \* a second, independent generate_with_retry call (SpecTwin only)
    credential,  \* what os.getenv("GOOGLE_API_KEY") yields after load_dotenv()
    clients,     \* number of genai.Client handles constructed so far
    components,  \* the value st.cache_resource holds for initialize_components
    hs           \* the form handler being run (Home.py) and the session state

vars == <<rs, twin, credential, clients, components, hs>>

(***************************************************************************)
(* Bounds of the model                                                     *)
(***************************************************************************)
MaxRetries == 4      \* generate_with_retry is tried with max_retries in 0..MaxRetries
MaxLen == 5          \* replies of up to MaxLen lexemes are extracted from
MaxClients == 3      \* constructions of GeminiClient followed in one process

(***************************************************************************)
(* Program constants                                                       *)
(***************************************************************************)
DefaultMaxRetries == 3     \* client.py:86  max_retries: int = 3
BackoffBase == 2           \* client.py:107 wait_time = 2 ** attempt

(***************************************************************************)
(* Error messages of the remote call: str(e), as the words the code looks  *)
(* for.                                                                    *)
(***************************************************************************)
RemoteErrors ==
    { <<"429", "RESOURCE_EXHAUSTED">>,
      <<"401", "UNAUTHORIZED">>,
      <<"404", "NOT_FOUND">>,
      <<"Model", "Not Found">>,
      <<"timeout">> }

\* str.lower() on one word of an error message.
Lower(w) ==
    CASE w = "Not Found" -> "not found"
      [] w = "NOT_FOUND" -> "not_found"
      [] w = "RESOURCE_EXHAUSTED" -> "resource_exhausted"
      [] w = "UNAUTHORIZED" -> "unauthorized"
      [] w = "Model" -> "model"
      [] OTHER -> w

LowerStr(s) == [i \in 1..Len(s) |-> Lower(s[i])]

\* Python's `word in error_str`.
Contains(s, w) == \E i \in 1..Len(s) : s[i] = w

None == <<"<None>">>
NoSignal == [exc |-> "none", msg |-> <<>>]

(***************************************************************************)
(* GeminiClient.generate (client.py 37-81)                                 *)
(***************************************************************************)
\* What the network call yields: a reply text, or an exception whose str() is err.
Success(t) == [ok |-> TRUE, text |-> t, err |-> <<>>]
Failure(e) == [ok |-> FALSE, text |-> None, err |-> e]
Outcomes(texts) == {Success(t) : t \in texts} \cup {Failure(e) : e \in RemoteErrors}

Event(kind, n) == [ev |-> kind, n |-> n]

\* The helpful message generate prints for an error (client.py 72-79): the only
\* distinction generate draws between errors.
Diagnose(error_str) ==
    IF Contains(error_str, "429") \/ Contains(error_str, "RESOURCE_EXHAUSTED")
    THEN "QUOTA EXCEEDED"
    ELSE IF Contains(error_str, "404") \/ Contains(LowerStr(error_str), "not found")
         THEN "MODEL NOT FOUND"
         ELSE "none"

\* Variant: the signal drops the original message.
GenerationFailed_Bare(error_str) ==
    [exc |-> "Exception", msg |-> <<"Gemini generation failed: ">>]

\* raise Exception(f"Gemini generation failed: {error_str}")  (client.py 81)
GenerationFailed(error_str) ==
    [exc |-> "Exception", msg |-> <<"Gemini generation failed: ">> \o error_str]

\* Variant: generate repeats a failed network call once by itself.
generate_Twice(outcome) ==
    IF outcome.ok
    THEN [kind |-> "return", text |-> outcome.text, signal |-> NoSignal,
          events |-> <<Event("net", 0)>>, diag |-> "none"]
    ELSE [kind |-> "raise", text |-> None, signal |-> GenerationFailed(outcome.err),
          events |-> <<Event("net", 0), Event("net", 0)>>,
          diag |-> Diagnose(outcome.err)]

\* One call of generate whose network call yields `outcome`: the network calls
\* it performs, what it prints, and how it ends.
generate(outcome) ==
    IF outcome.ok
    THEN [kind |-> "return", text |-> outcome.text, signal |-> NoSignal,
          events |-> <<Event("net", 0)>>, diag |-> "none"]
    ELSE [kind |-> "raise", text |-> None, signal |-> GenerationFailed(outcome.err),
          events |-> <<Event("net", 0)>>, diag |-> Diagnose(outcome.err)]

(***************************************************************************)
(* GeminiClient.generate_with_retry (client.py 83-114)                     *)
(***************************************************************************)
Idle ==
    [pc |-> "idle", max_retries |-> 0, attempt |-> 0, wait_time |-> 0,
     log |-> <<>>, outcomes |-> <<>>, signals |-> <<>>, diags |-> <<>>,
     result |-> None, raised |-> NoSignal]

\* Entry of generate_with_retry(prompt, max_retries): range(max_retries) starts at 0.
NewCall(max_retries) == [Idle EXCEPT !.pc = "for", !.max_retries = max_retries]

\* Variant: the loop runs over range(max_retries + 1).
ForNext_Inclusive(r) ==
    IF r.attempt <= r.max_retries
    THEN [r EXCEPT !.pc = "generate",
                   !.log = Append(@, Event("generate", r.attempt))]
    ELSE [r EXCEPT !.pc = "returned", !.result = None]

\* for attempt in range(max_retries): the next iteration calls generate; an
\* exhausted range leaves the loop and the function ends without a return
\* statement, which in Python returns None.
ForNext(r) ==
    IF r.attempt < r.max_retries
    THEN [r EXCEPT !.pc = "generate",
                   !.log = Append(@, Event("generate", r.attempt))]
    ELSE [r EXCEPT !.pc = "returned", !.result = None]

\* Variant: linear backoff, wait_time = attempt + 1.
ExceptClause_Linear(r, e) ==
    IF r.attempt < r.max_retries - 1
    THEN [r EXCEPT !.pc = "sleeping", !.wait_time = r.attempt + 1]
    ELSE [r EXCEPT !.pc = "raised", !.raised = e]

\* Variant: an invalid-credential failure is raised at once, not retried.
ExceptClause_ShortCircuit(r, e) ==
    IF r.attempt < r.max_retries - 1 /\ ~Contains(e.msg, "401")
    THEN [r EXCEPT !.pc = "sleeping", !.wait_time = BackoffBase ^ r.attempt]
    ELSE [r EXCEPT !.pc = "raised", !.raised = e]

\* Variant: the loop also sleeps after the last attempt has failed.
ExceptClause_SleepOnLast(r, e) ==
    IF r.attempt < r.max_retries
    THEN [r EXCEPT !.pc = "sleeping", !.wait_time = BackoffBase ^ r.attempt]
    ELSE [r EXCEPT !.pc = "raised", !.raised = e]

\* except Exception as e (client.py 105-114)
ExceptClause(r, e) ==
    IF r.attempt < r.max_retries - 1
    THEN [r EXCEPT !.pc = "sleeping", !.wait_time = BackoffBase ^ r.attempt]
    ELSE [r EXCEPT !.pc = "raised", !.raised = e]

\* return self.generate(prompt, **kwargs) inside the try (client.py 103-104)
TryGenerate(r, outcome) ==
    LET g == generate(outcome)
        seen == [r EXCEPT !.log = @ \o g.events,
                          !.outcomes = Append(@, outcome),
                          !.diags = Append(@, g.diag)]
    IN  IF g.kind = "return"
        THEN [seen EXCEPT !.pc = "returned", !.result = g.text]
        ELSE ExceptClause([seen EXCEPT !.signals = Append(@, g.signal)], g.signal)

\* time.sleep(wait_time), then the for statement takes the next index.
SleepDone(r) ==
    [r EXCEPT !.pc = "for", !.attempt = @ + 1,
              !.log = Append(@, Event("sleep", r.wait_time))]

(***************************************************************************)
(* Reply texts.  Lexemes:                                                  *)
(*   "FJ"  a fence tagged json           "F"   a fence with no json tag       *)
(*   "{" "}" "[" "]"  the delimiters  "SP"  a run of whitespace            *)
(*   "null" the JSON literal null     "x"   any other run of characters    *)
(***************************************************************************)
Lexemes == {"FJ", "F", "{", "}", "[", "]", "SP", "null", "x"}
Replies == UNION {[1..n -> Lexemes] : n \in 0..MaxLen}

Min(S) == CHOOSE m \in S : \A k \in S : m <= k
Max(S) == CHOOSE m \in S : \A k \in S : m >= k

\* str.strip()
Strip(s) ==
    LET keep == {i \in 1..Len(s) : s[i] # "SP"}
    IN  IF keep = {} THEN <<>> ELSE SubSeq(s, Min(keep), Max(keep))

\* str.find / str.rfind of a one-lexeme needle: 0-based index, -1 if absent.
find(s, c) ==
    LET at == {i \in 1..Len(s) : s[i] = c}
    IN  IF at = {} THEN -1 ELSE Min(at) - 1
rfind(s, c) ==
    LET at == {i \in 1..Len(s) : s[i] = c}
    IN  IF at = {} THEN -1 ELSE Max(at) - 1

\* s[start:end] for 0 <= start and 0 <= end <= len(s): empty when end <= start.
Slice(s, start, end) == SubSeq(s, start + 1, end)

\* Whether lexeme t is an occurrence of the separator.  The separators are the
\* three-backquote fence ("fence") and the fence followed by json ("fence-json");
\* "fence-json" occurs only as FJ, "fence" occurs in F and at the start of FJ.
IsSep(t, sep) == IF sep = "fence-json" THEN t = "FJ" ELSE t \in {"F", "FJ"}

\* What an occurrence of the separator leaves behind in the text after it:
\* splitting FJ on "fence" leaves the word json, a run of other characters.
Remnant(t, sep) == IF sep = "fence" /\ t = "FJ" THEN <<"x">> ELSE <<>>

\* str.split(sep): the list of parts.
RECURSIVE split(_, _)
split(s, sep) ==
    LET at == {i \in 1..Len(s) : IsSep(s[i], sep)}
    IN  IF at = {} THEN <<s>>
        ELSE LET i == Min(at)
                 rest == split(SubSeq(s, i + 1, Len(s)), sep)
             IN  <<SubSeq(s, 1, i - 1)>>
                   \o <<Remnant(s[i], sep) \o Head(rest)>> \o Tail(rest)

\* sep in s
HasSep(s, sep) == \E i \in 1..Len(s) : IsSep(s[i], sep)

(***************************************************************************)
(* json.loads on the lexemes: whitespace between lexemes is skipped; a     *)
(* value is null, {}, [] or an array holding one value.                    *)
(***************************************************************************)
Absent == [kind |-> "absent", toks |-> <<>>]

NoSpace(s) == SelectSeq(s, LAMBDA t : t # "SP")

RECURSIVE IsValue(_)
IsValue(t) ==
    \/ t = <<"null">>
    \/ t = <<"{", "}">>
    \/ t = <<"[", "]">>
    \/ /\ Len(t) >= 3
       /\ t[1] = "[" /\ t[Len(t)] = "]"
       /\ IsValue(SubSeq(t, 2, Len(t) - 1))

KindOf(t) ==
    CASE t[1] = "{" -> "object"
      [] t[1] = "[" -> "array"
      [] OTHER -> "null"

\* json.loads(s): the value, or JSONDecodeError.
loads(s) ==
    LET t == NoSpace(s)
    IN  IF IsValue(t)
        THEN [ok |-> TRUE, value |-> [kind |-> KindOf(t), toks |-> t]]
        ELSE [ok |-> FALSE, value |-> Absent]

(***************************************************************************)
(* The reply parsing of the two form handlers (Home.py 379-398, 468-484)   *)
(***************************************************************************)
\* Variant: the untagged rule needs two fence delimiters (three parts).
FenceIsolate_TwoFences(response) ==
    LET json_str == Strip(response)
    IN  IF HasSep(json_str, "fence-json")
        THEN Strip(split(split(json_str, "fence-json")[2], "fence")[1])
        ELSE IF HasSep(json_str, "fence")
             THEN LET parts == split(json_str, "fence")
                  IN  IF Len(parts) >= 3 THEN Strip(parts[2]) ELSE json_str
             ELSE json_str

\* Variant: the first fenced segment is taken whether or not it is tagged.
FenceIsolate_FirstBlock(response) ==
    LET json_str == Strip(response)
    IN  IF HasSep(json_str, "fence")
        THEN Strip(split(json_str, "fence")[2])
        ELSE json_str

\* json_str = response.strip(), then the fence rules (Home.py 380-386, 469-475).
\* Python's [1] and [0] are the 2nd and the 1st element.
FenceIsolate(response) ==
    LET json_str == Strip(response)
    IN  IF HasSep(json_str, "fence-json")
        THEN Strip(split(split(json_str, "fence-json")[2], "fence")[1])
        ELSE IF HasSep(json_str, "fence")
             THEN LET parts == split(json_str, "fence")
                  IN  IF Len(parts) >= 2 THEN Strip(parts[2]) ELSE json_str
             ELSE json_str

\* Variant: the slice ends at the first closing delimiter.
Narrow_FirstClose(json_str, open, close) ==
    IF Contains(json_str, open) /\ Contains(json_str, close)
    THEN Slice(json_str, find(json_str, open), find(json_str, close) + 1)
    ELSE json_str

\* if open in json_str and close in json_str: json_str = json_str[find:rfind+1]
\* (Home.py 388-391, 477-480)
Narrow(json_str, open, close) ==
    IF Contains(json_str, open) /\ Contains(json_str, close)
    THEN Slice(json_str, find(json_str, open), rfind(json_str, close) + 1)
    ELSE json_str

\* Curriculum(**curriculum_data) (Home.py 395): the ** needs a mapping; whether
\* the data model accepts the mapping is decided by src/curriculum/models.py.
Curriculum(data, accepts) ==
    IF data.kind # "object" THEN [ok |-> FALSE, exc |-> "TypeError"]
    ELSE IF accepts THEN [ok |-> TRUE, exc |-> "none"]
    ELSE [ok |-> FALSE, exc |-> "ValidationError"]

\* len(recommendations) in the success message (Home.py 484): None has no len().
HasLen(value) == value.kind # "null"

NoHandler ==
    [pc |-> "idle", form |-> "none", response |-> None, json_str |-> None,
     career_curriculum |-> Absent, recommendations |-> Absent,
     stored_now |-> FALSE, report |-> "none", reason |-> "none", escaped |-> FALSE]

\* st.success(...) / st.error(...) ending the handler's with-block.
Reported(h, report, reason) ==
    [h EXCEPT !.pc = "done", !.report = report, !.reason = reason]

\* Career handler, after generate_with_retry returned `response` (Home.py 379-400).
CareerTry(h, response, accepts) ==
    LET json_str == Narrow(FenceIsolate(response), "{", "}")
        parsed == loads(json_str)
        h1 == [h EXCEPT !.response = response, !.json_str = json_str]
    IN  IF ~parsed.ok THEN Reported(h1, "error", "JSONDecodeError")
        ELSE LET c == Curriculum(parsed.value, accepts)
             IN  IF ~c.ok THEN Reported(h1, "error", c.exc)
                 ELSE Reported([h1 EXCEPT !.career_curriculum = parsed.value,
                                          !.stored_now = TRUE],
                               "success", "none")

\* Recommender handler, after generate_with_retry returned (Home.py 468-486):
\* the value is stored (483) before the success message takes its len (484).
RecommenderTry(h, response) ==
    LET json_str == Narrow(FenceIsolate(response), "[", "]")
        parsed == loads(json_str)
        h1 == [h EXCEPT !.response = response, !.json_str = json_str]
    IN  IF ~parsed.ok THEN Reported(h1, "error", "JSONDecodeError")
        ELSE LET h2 == [h1 EXCEPT !.recommendations = parsed.value,
                                  !.stored_now = TRUE]
             IN  IF HasLen(parsed.value) THEN Reported(h2, "success", "none")
                 ELSE Reported(h2, "error", "TypeError")

\* The display of the stored recommendations (Home.py 488-497), outside any try:
\* enumerate() needs an iterable and rec.get a dict.  Iterating {} yields nothing.
RenderRaises(recs) ==
    CASE recs.kind = "absent" -> FALSE
      [] recs.kind = "null" -> TRUE
      [] recs.kind = "object" -> FALSE
      [] recs.kind = "array" ->
            LET inner == SubSeq(recs.toks, 2, Len(recs.toks) - 1)
            IN  inner # <<>> /\ KindOf(inner) # "object"

(***************************************************************************)
(* GeminiClient.__init__ (client.py 14-35)                                 *)
(***************************************************************************)
Credentials == {"absent", "empty", "key"}

\* Variant: the credential is not checked at construction.
Construct_Unchecked(api_key) == [ok |-> TRUE, exc |-> "none", handles |-> 1]

\* if not api_key: raise ValueError(...), else self.client = genai.Client(...)
Construct(api_key) ==
    IF api_key \in {"absent", "empty"}
    THEN [ok |-> FALSE, exc |-> "ValueError", handles |-> 0]
    ELSE [ok |-> TRUE, exc |-> "none", handles |-> 1]

(***************************************************************************)
(* Actions                                                                 *)
(***************************************************************************)
\* Replies the remote model gives in the whole-application specification, and in
\* the retry specifications.
AppReplies ==
    { <<"x", "FJ", "{", "}", "F">>, <<"[", "{", "}", "]">>, <<"{", "}">>,
      <<"null">>, <<"x">> }
RetryTexts == { <<"{", "}">>, <<"x">> }
\* Errors of the second call in SpecTwin: every call is compared with the calls
\* that see these errors on the same attempts.
TwinErrors == { <<"timeout">>, <<"429", "RESOURCE_EXHAUSTED">> }

\* The process environment is not under the program's control: load_dotenv()
\* and os.getenv read it anew at every construction (client.py 21-23).
EnvChange ==
    /\ \E c \in Credentials \ {credential} : credential' = c
    /\ UNCHANGED <<rs, twin, clients, components, hs>>

\* initialize_components() (Home.py 197-217) under st.cache_resource: the body
\* runs on the first call only and its return value is kept.  kb: whether the
\* knowledge base exists and is not empty (Home.py 201-206).
InitializeComponents ==
    /\ components = "unset"
    /\ \E kb \in BOOLEAN :
          IF ~kb
          THEN components' = "kb_error" /\ clients' = clients
          ELSE LET c == Construct(credential)
               IN  /\ components' = IF c.ok THEN "ready" ELSE "config_error"
                   /\ clients' = clients + c.handles
    /\ UNCHANGED <<rs, twin, credential, hs>>

\* Variant: the handler reuses the client of initialize_components.
Submit_Reuse(form) ==
    /\ components = "ready"
    /\ hs.pc = "idle"
    /\ clients < MaxClients
    /\ hs' = [hs EXCEPT !.pc = "calling", !.form = form, !.response = None,
                        !.json_str = None, !.stored_now = FALSE,
                        !.report = "none", !.reason = "none", !.escaped = FALSE]
    /\ rs' = NewCall(DefaultMaxRetries)
    /\ UNCHANGED <<twin, credential, clients, components>>

\* A form is submitted (Home.py 362-377, 453-466): the handler constructs a
\* GeminiClient and calls generate_with_retry with the default max_retries; a
\* ValueError of the constructor is caught by the handler's except Exception.
Submit(form) ==
    /\ components = "ready"
    /\ hs.pc = "idle"
    /\ clients < MaxClients
    /\ LET c == Construct(credential)
           h == [hs EXCEPT !.form = form, !.response = None, !.json_str = None,
                           !.stored_now = FALSE, !.report = "none",
                           !.reason = "none", !.escaped = FALSE]
       IN  /\ clients' = clients + c.handles
           /\ IF c.ok
              THEN /\ hs' = [h EXCEPT !.pc = "calling"]
                   /\ rs' = NewCall(DefaultMaxRetries)
              ELSE /\ hs' = Reported(h, "error", c.exc)
                   /\ rs' = Idle
    /\ UNCHANGED <<twin, credential, components>>

SubmitCareer == Submit("career")
SubmitRecommender == Submit("recommender")

RetryFor ==
    /\ rs.pc = "for"
    /\ rs' = ForNext(rs)
    /\ UNCHANGED <<twin, credential, clients, components, hs>>

RetryNetwork(texts) ==
    /\ rs.pc = "generate"
    /\ \E o \in Outcomes(texts) : rs' = TryGenerate(rs, o)
    /\ UNCHANGED <<twin, credential, clients, components, hs>>

RetrySleep ==
    /\ rs.pc = "sleeping"
    /\ rs' = SleepDone(rs)
    /\ UNCHANGED <<twin, credential, clients, components, hs>>

CareerParse ==
    /\ hs.pc = "calling" /\ hs.form = "career"
    /\ rs.pc = "returned"
    /\ \E accepts \in BOOLEAN : hs' = CareerTry(hs, rs.result, accepts)
    /\ UNCHANGED <<rs, twin, credential, clients, components>>

\* Variant: a reply that does not parse makes the handler call the model again.
RecommenderParse_Regenerate ==
    /\ hs.pc = "calling" /\ hs.form = "recommender"
    /\ rs.pc = "returned"
    /\ LET h == RecommenderTry(hs, rs.result)
       IN  IF h.reason = "JSONDecodeError"
           THEN hs' = hs /\ rs' = NewCall(DefaultMaxRetries)
           ELSE hs' = h /\ rs' = rs
    /\ UNCHANGED <<twin, credential, clients, components>>

RecommenderParse ==
    /\ hs.pc = "calling" /\ hs.form = "recommender"
    /\ rs.pc = "returned"
    /\ hs' = RecommenderTry(hs, rs.result)
    /\ UNCHANGED <<rs, twin, credential, clients, components>>

\* generate_with_retry raised: except Exception as e: st.error(...) (Home.py 399, 485)
HandlerExcept ==
    /\ hs.pc = "calling"
    /\ rs.pc = "raised"
    /\ hs' = Reported(hs, "error", rs.raised.exc)
    /\ UNCHANGED <<rs, twin, credential, clients, components>>

\* The rest of the script run: the stored results are displayed.
Render ==
    /\ hs.pc = "done"
    /\ hs' = [hs EXCEPT !.pc = "idle", !.escaped = RenderRaises(hs.recommendations)]
    /\ UNCHANGED <<rs, twin, credential, clients, components>>

(***************************************************************************)
(* Spec: the application (Home.py) from process start.                     *)
(***************************************************************************)
Init ==
    /\ rs = Idle /\ twin = Idle
    /\ credential \in Credentials
    /\ clients = 0
    /\ components = "unset"
    /\ hs = NoHandler

AppNetwork == RetryNetwork(AppReplies)

Next ==
    \/ EnvChange \/ InitializeComponents
    \/ SubmitCareer \/ SubmitRecommender
    \/ RetryFor \/ AppNetwork \/ RetrySleep
    \/ CareerParse \/ RecommenderParse \/ HandlerExcept \/ Render

Spec == Init /\ [][Next]_vars

(***************************************************************************)
(* SpecRetry: one call generate_with_retry(prompt, max_retries) on a       *)
(* constructed client, for max_retries in 0..MaxRetries.                   *)
(***************************************************************************)
InitRetry ==
    /\ \E n \in 0..MaxRetries : rs = NewCall(n)
    /\ twin = Idle
    /\ credential = "key" /\ clients = 1
    /\ components = "unset"
    /\ hs = NoHandler

DirectNetwork == RetryNetwork(RetryTexts)

NextRetry == RetryFor \/ DirectNetwork \/ RetrySleep

SpecRetry == InitRetry /\ [][NextRetry]_vars

(***************************************************************************)
(* SpecTwin: two calls with the same max_retries whose attempts succeed or *)
(* fail alike, with whatever errors.                                       *)
(***************************************************************************)
InitTwin ==
    /\ \E n \in 0..MaxRetries : rs = NewCall(n) /\ twin = NewCall(n)
    /\ credential = "key" /\ clients = 2
    /\ components = "unset"
    /\ hs = NoHandler

TwinFor ==
    /\ rs.pc = "for" /\ twin.pc = "for"
    /\ rs' = ForNext(rs) /\ twin' = ForNext(twin)
    /\ UNCHANGED <<credential, clients, components, hs>>

TwinNetwork ==
    /\ rs.pc = "generate" /\ twin.pc = "generate"
    /\ \E o1, o2 \in Outcomes(RetryTexts) :
          /\ o1.ok = o2.ok /\ o1.text = o2.text
          /\ o2.ok \/ o2.err \in TwinErrors
          /\ rs' = TryGenerate(rs, o1) /\ twin' = TryGenerate(twin, o2)
    /\ UNCHANGED <<credential, clients, components, hs>>

TwinSleep ==
    /\ rs.pc = "sleeping" /\ twin.pc = "sleeping"
    /\ rs' = SleepDone(rs) /\ twin' = SleepDone(twin)
    /\ UNCHANGED <<credential, clients, components, hs>>

NextTwin == TwinFor \/ TwinNetwork \/ TwinSleep

SpecTwin == InitTwin /\ [][NextTwin]_vars

(***************************************************************************)
(* SpecExtract: a form handler whose generate_with_retry call has just     *)
(* returned a reply, for every reply of up to MaxLen lexemes.              *)
(***************************************************************************)
InitExtract ==
    /\ \E reply \in Replies :
          rs = TryGenerate(ForNext(NewCall(DefaultMaxRetries)), Success(reply))
    /\ twin = Idle
    /\ credential = "key" /\ clients = 2
    /\ components = "ready"
    /\ \E form \in {"career", "recommender"} :
          hs = [NoHandler EXCEPT !.pc = "calling", !.form = form]

NextExtract == CareerParse \/ RecommenderParse

SpecExtract == InitExtract /\ [][NextExtract]_vars

(***************************************************************************)
(* Properties                                                              *)
(***************************************************************************)
Last(q) == q[Len(q)]
Count(log, kind) == Cardinality({j \in 1..Len(log) : log[j].ev = kind})
Sleeps(log) == SelectSeq(log, LAMBDA e : e.ev = "sleep")
AllFailed(r) == \A i \in 1..Len(r.outcomes) : ~r.outcomes[i].ok
Ended(r) == r.pc \in {"returned", "raised"}

\* The trace of a call whose first success is attempt k: attempt i (from 0) is
\* a generate call and its network call, and a sleep of 2^i follows it unless
\* it is the k-th.
ExpectedTrace(k) ==
    [j \in 1..(3 * k - 1) |->
        LET i == (j - 1) \div 3
        IN  CASE (j - 1) % 3 = 0 -> Event("generate", i)
              [] (j - 1) % 3 = 1 -> Event("net", 0)
              [] OTHER -> Event("sleep", 2 ^ i)]

\* C1: with max_retries = N >= 1 and the first success on attempt k <= N, the
\* call makes exactly k generate calls, returns the text of the k-th, and
\* sleeps 2^0, ..., 2^(k-2), each between two consecutive attempts; a
\* successful attempt always ends the call.
C1_FirstSuccessTrace ==
    LET k == Len(rs.outcomes)
    IN  /\ (k >= 1 /\ rs.outcomes[k].ok) => rs.pc = "returned"
        /\ (rs.pc = "returned" /\ rs.max_retries >= 1) =>
              /\ k \in 1..rs.max_retries
              /\ rs.outcomes[k].ok
              /\ \A j \in 1..(k - 1) : ~rs.outcomes[j].ok
              /\ rs.result = rs.outcomes[k].text
              /\ rs.log = ExpectedTrace(k)
              /\ Sleeps(rs.log) = [i \in 1..(k - 1) |-> Event("sleep", 2 ^ (i - 1))]

C1_Witness ==
    /\ rs.pc = "returned" /\ rs.max_retries = 4 /\ Len(rs.outcomes) = 4
    /\ Sleeps(rs.log) = <<Event("sleep", 1), Event("sleep", 2), Event("sleep", 4)>>

\* C2: with a remote call that fails on every attempt, exactly max_retries
\* generate calls are made and the call ends by raising the signal of the last
\* attempt, for every max_retries including 1 and 0.
C2_ExhaustionRaisesLast ==
    (Ended(rs) /\ AllFailed(rs)) =>
        /\ Count(rs.log, "generate") = rs.max_retries
        /\ rs.pc = "raised"
        /\ rs.signals # <<>> /\ rs.raised = Last(rs.signals)

\* C3: the number of generate attempts issued so far never exceeds
\* max_retries, and a returned text was produced by the attempt of an index
\* (from 0) below max_retries.
C3_AttemptBudget ==
    /\ Count(rs.log, "generate") <= rs.max_retries
    /\ (rs.pc = "returned" /\ rs.result # None) =>
          /\ rs.outcomes # <<>>
          /\ Len(rs.outcomes) - 1 < rs.max_retries
          /\ Last(rs.outcomes).ok /\ rs.result = Last(rs.outcomes).text
          /\ Last(rs.log) = Event("net", 0)
          /\ rs.log[Len(rs.log) - 1] = Event("generate", Len(rs.outcomes) - 1)

C3_Witness ==
    /\ rs.pc = "returned" /\ rs.result # None
    /\ rs.max_retries >= 2 /\ Len(rs.outcomes) = rs.max_retries

\* C4: two calls with the same max_retries and the same success/failure
\* pattern but different failure classes make the same attempts and the same
\* sleeps; a failure of any class is raised only when the budget is used up.
C4_ClassBlindRetry ==
    /\ rs.pc = twin.pc /\ rs.attempt = twin.attempt
    /\ rs.log = twin.log
    /\ rs.result = twin.result
    /\ \A r \in {rs, twin} :
          r.pc = "raised" => Count(r.log, "generate") = r.max_retries

C4_Witness ==
    /\ rs.pc = "raised" /\ rs.max_retries >= 3
    /\ \A i \in 1..Len(rs.outcomes) : rs.outcomes[i].err = <<"401", "UNAUTHORIZED">>
    /\ \A i \in 1..Len(twin.outcomes) : twin.outcomes[i].err = <<"timeout">>
    /\ Len(Sleeps(rs.log)) = rs.max_retries - 1

\* C5: with the credential absent or empty, constructing the client raises
\* ValueError at once in initialize_components and in both form handlers: no
\* handle is created, no generate call, network call or sleep is made for it
\* and nothing is retried.
C5_MissingCredentialFailsFast ==
    [][ /\ (components = "unset" /\ components' \in {"ready", "config_error"}) =>
            /\ (components' = "config_error") = (credential \in {"absent", "empty"})
            /\ components' = "config_error" => (clients' = clients /\ rs' = rs)
        /\ (hs.pc = "idle" /\ hs'.pc # "idle") =>
            /\ (hs'.reason = "ValueError") = (credential \in {"absent", "empty"})
            /\ hs'.reason = "ValueError" =>
                  /\ clients' = clients
                  /\ hs'.pc = "done" /\ hs'.report = "error"
                  /\ rs' = Idle
        /\ (hs.reason = "ValueError" /\ hs'.reason = "ValueError") => rs' = Idle
      ]_vars

C5_Witness ==
    /\ hs.reason = "ValueError" /\ hs.form = "recommender"
    /\ hs.pc = "idle" /\ clients = 1 /\ rs = Idle

\* C6: one generate call performs exactly one network call whether it succeeds
\* or fails, so the network calls of a generate_with_retry call are as many
\* as the attempts of its loop.
C6_OneNetworkCallPerGenerate ==
    /\ Count(rs.log, "net") = Len(rs.outcomes)
    /\ Count(rs.log, "generate") =
          Count(rs.log, "net") + (IF rs.pc = "generate" THEN 1 ELSE 0)
    /\ \A j \in 1..Len(rs.log) :
          rs.log[j].ev = "net" => (j > 1 /\ rs.log[j - 1].ev = "generate")

C6_Witness ==
    /\ rs.pc = "returned" /\ Len(rs.outcomes) = 3
    /\ Count(rs.log, "net") = 3

\* The four classes the claim names, told apart by the words of the message.
ClaimedClass(err) ==
    IF Contains(err, "429") \/ Contains(err, "RESOURCE_EXHAUSTED") THEN "quota"
    ELSE IF Contains(err, "401") \/ Contains(err, "UNAUTHORIZED") THEN "unauthorized"
    ELSE IF Contains(err, "404") \/ Contains(LowerStr(err), "not found")
         THEN "not_found"
         ELSE "unknown"

\* The class a diagnosis of generate stands for; no diagnosis counts as unknown.
ClassOfDiag(d) ==
    CASE d = "QUOTA EXCEEDED" -> "quota"
      [] d = "MODEL NOT FOUND" -> "not_found"
      [] OTHER -> "unknown"

\* C7 (as claimed): generate classifies every failure of the network call as
\* quota, unauthorized, not-found or unknown and the signal it raises carries
\* that class with the original message, up to the signal surfaced after
\* exhaustion.
C7_FourWayClassification ==
    /\ \A i \in 1..Len(rs.signals) :
          /\ ClassOfDiag(rs.diags[i]) = ClaimedClass(rs.outcomes[i].err)
          /\ rs.signals[i].msg = <<"Gemini generation failed: ">> \o rs.outcomes[i].err
    /\ rs.pc = "raised" =>
          ClassOfDiag(Last(rs.diags)) = ClaimedClass(Last(rs.outcomes).err)

\* C7 (amended): generate tells apart only quota and not-found failures, and
\* only in what it prints; an unauthorized failure is treated as an unknown
\* one (as a not-found one if its message also says 404 or not found).  Every
\* failure is raised as one plain Exception whose message is
\* "Gemini generation failed: " followed by the original message, with no
\* class attached, and the signal surfaced after exhaustion is that of the
\* last attempt, original message included.
C7_MessageOnlySignal ==
    /\ Len(rs.diags) = Len(rs.outcomes)
    /\ \A i \in 1..Len(rs.signals) :
          LET err == rs.outcomes[i].err
              claimed == ClaimedClass(err)
          IN  /\ ~rs.outcomes[i].ok
              /\ rs.signals[i] =
                    [exc |-> "Exception", msg |-> <<"Gemini generation failed: ">> \o err]
              /\ ClassOfDiag(rs.diags[i]) =
                    (IF claimed # "unauthorized" THEN claimed
                     ELSE IF Contains(err, "404") \/ Contains(LowerStr(err), "not found")
                          THEN "not_found"
                          ELSE "unknown")
    /\ rs.pc = "raised" =>
          /\ Len(rs.signals) = Len(rs.outcomes)
          /\ rs.raised.exc = "Exception"
          /\ rs.raised.msg = <<"Gemini generation failed: ">> \o Last(rs.outcomes).err

C7_Witness ==
    /\ rs.pc = "raised" /\ rs.max_retries >= 2
    /\ Last(rs.outcomes).err = <<"401", "UNAUTHORIZED">>
    /\ Last(rs.diags) = "none"
    /\ rs.outcomes[1].err = <<"Model", "Not Found">>

(***************************************************************************)
(* Properties of the reply parsing                                         *)
(***************************************************************************)
IsFence(t) == t \in {"F", "FJ"}
OpenOf(form) == IF form = "career" THEN "{" ELSE "["
CloseOf(form) == IF form = "career" THEN "}" ELSE "]"
StoredValue(h) ==
    IF h.form = "career" THEN h.career_curriculum ELSE h.recommendations

\* The reply has a JSON-tagged opening fence and a closing fence after it.
HasClosedTaggedBlock(s) ==
    \E i, j \in 1..Len(s) : i < j /\ s[i] = "FJ" /\ IsFence(s[j])

\* What lies between the first JSON-tagged fence and the next fence (the end
\* of the reply if there is none).
BlockContent(s) ==
    LET i == Min({k \in 1..Len(s) : s[k] = "FJ"})
        j == Min({k \in (i + 1)..Len(s) : IsFence(s[k])} \cup {Len(s) + 1})
    IN  [k \in 1..(j - i - 1) |-> s[i + k]]

RECURSIVE Trim(_)
Trim(s) ==
    IF s = <<>> THEN s
    ELSE IF Head(s) = "SP" THEN Trim(Tail(s))
    ELSE IF s[Len(s)] = "SP" THEN Trim(SubSeq(s, 1, Len(s) - 1))
    ELSE s

\* From the first opening to the last closing delimiter when both occur
\* (nothing if the last closing one comes first), else the text itself.
ExpectedNarrow(c, open, close) ==
    LET opens == {i \in 1..Len(c) : c[i] = open}
        closes == {i \in 1..Len(c) : c[i] = close}
    IN  IF opens = {} \/ closes = {} THEN c
        ELSE [k \in 1..(Max(closes) - Min(opens) + 1) |-> c[Min(opens) + k - 1]]

\* C8 (as claimed): for a reply with a JSON-tagged fenced block, what is parsed
\* is exactly the content between the first JSON-tagged fence and the next
\* closing fence, not narrowed or changed (surrounding whitespace aside), and
\* a stored value is the parse of that content.
C8_BlockParsedAsIs ==
    (hs.pc = "done" /\ HasClosedTaggedBlock(hs.response)) =>
        LET c == BlockContent(hs.response)
        IN  /\ NoSpace(hs.json_str) = NoSpace(c)
            /\ hs.stored_now => (IsValue(NoSpace(c)) /\ StoredValue(hs).toks = NoSpace(c))

\* C8 (amended): for a reply with a JSON-tagged fence, the content between
\* the first such fence and the next fence (or the end of the reply) is
\* stripped and then, if it holds both an opening and a closing delimiter of
\* the expected shape, narrowed to the text from the first opening to the last
\* closing delimiter; that text is what is parsed, whatever prose surrounds
\* the block, and only its parse is stored.
C8_BlockNarrowedThenParsed ==
    (hs.pc = "done" /\ hs.response # None /\ Contains(hs.response, "FJ")) =>
        LET e == ExpectedNarrow(Trim(BlockContent(hs.response)),
                                OpenOf(hs.form), CloseOf(hs.form))
        IN  /\ hs.json_str = e
            /\ hs.stored_now => StoredValue(hs).toks = NoSpace(e)
            /\ hs.report = "success" => (hs.stored_now /\ IsValue(NoSpace(e)))
            /\ ~IsValue(NoSpace(e)) =>
                  /\ ~hs.stored_now
                  /\ hs.report = "error" /\ hs.reason = "JSONDecodeError"

C8_Witness ==
    /\ hs.pc = "done" /\ hs.form = "career"
    /\ hs.response = <<"FJ", "x", "{", "}", "F">>
    /\ hs.json_str = <<"{", "}">>
    /\ hs.report = "success" /\ hs.career_curriculum.kind = "object"

\* The reply has no opening delimiter followed, anywhere later, by a closing one.
NoDelimiterPair(s, open, close) ==
    ~\E i, j \in 1..Len(s) : i < j /\ s[i] = open /\ s[j] = close

\* C9: for a reply with no delimiter pair of the expected shape, extraction
\* ends in a failure and never in a parsed value, also when the reply is valid
\* JSON of another shape or has the closing delimiter only before the opening
\* one.
C9_NoDelimitersFails ==
    (hs.pc = "done" /\ hs.response # None
       /\ NoDelimiterPair(hs.response, OpenOf(hs.form), CloseOf(hs.form))) =>
        /\ hs.report = "error"
        /\ ~hs.stored_now

\* C10: the extraction step ends either with a parsed value stored in the
\* session state or with a failure reported, never both and never neither,
\* and no exception escapes.
C10_ValueXorFailure ==
    /\ (hs.pc = "done" /\ hs.response # None) =>
          /\ hs.report \in {"success", "error"}
          /\ hs.stored_now = (hs.report = "success")
    /\ ~hs.escaped

\* C11: an extraction failure never causes another remote call: within one
\* form submission at most max_retries generate calls are made, and once
\* generate_with_retry has returned a text no generate call follows, whatever
\* the extraction outcome; only a new submission starts a call.
C11_NoRegeneration ==
    [][ /\ Count(rs.log, "generate") <= DefaultMaxRetries
        /\ Count(rs.log, "net") <= DefaultMaxRetries
        /\ (rs.pc = "returned" /\ rs' # rs) => (hs.pc = "idle" /\ hs'.pc # "idle")
        /\ (hs.pc = "calling" /\ hs'.pc = "done") => rs' = rs
        /\ (hs.pc = "done" /\ hs'.pc = "idle") => rs' = rs
      ]_vars

C11_Witness ==
    /\ hs.pc = "idle" /\ hs.response # None
    /\ hs.report = "error" /\ hs.reason = "JSONDecodeError"
    /\ rs.pc = "returned" /\ Count(rs.log, "generate") = 2

RECURSIVE SumOf(_)
SumOf(q) == IF q = <<>> THEN 0 ELSE Head(q).n + SumOf(Tail(q))

\* C12: a sleep happens only after a failed attempt that is not the last one:
\* after the failure of attempt i < max_retries - 1 the loop sleeps 2^i before
\* attempt i + 1, after the failure of attempt max_retries - 1 it raises
\* without sleeping, so a fully failing call sleeps max_retries - 1 times,
\* 2^(max_retries - 1) - 1 in all, and no sleep follows a success.
C12_SleepOnlyBetweenAttempts ==
    /\ \A j \in 1..Len(rs.log) :
          rs.log[j].ev = "sleep" =>
              /\ j >= 3
              /\ rs.log[j - 1].ev = "net" /\ rs.log[j - 2].ev = "generate"
              /\ LET i == rs.log[j - 2].n
                 IN  /\ i < rs.max_retries - 1
                     /\ ~rs.outcomes[i + 1].ok
                     /\ rs.log[j].n = 2 ^ i
                     /\ j < Len(rs.log) => rs.log[j + 1] = Event("generate", i + 1)
                     /\ j = Len(rs.log) => (rs.pc = "for" /\ rs.attempt = i + 1)
    /\ \A i \in 1..Len(rs.outcomes) :
          (~rs.outcomes[i].ok /\ i - 1 < rs.max_retries - 1) =>
              \/ rs.pc = "sleeping" /\ i = Len(rs.outcomes) /\ rs.wait_time = 2 ^ (i - 1)
              \/ Len(Sleeps(rs.log)) >= i
    /\ rs.pc = "sleeping" => ~Last(rs.outcomes).ok
    /\ rs.pc = "raised" =>
          /\ Last(rs.log).ev = "net"
          /\ Len(rs.outcomes) = rs.max_retries
          /\ Len(Sleeps(rs.log)) = rs.max_retries - 1
          /\ SumOf(Sleeps(rs.log)) = 2 ^ (rs.max_retries - 1) - 1
    /\ (rs.pc = "returned" /\ rs.log # <<>>) => Last(rs.log).ev = "net"

C12_Witness ==
    /\ rs.pc = "raised" /\ rs.max_retries = 4
    /\ SumOf(Sleeps(rs.log)) = 7

FenceCount(s) == Cardinality({k \in 1..Len(s) : IsFence(s[k])})

\* What lies between position i and the next fence after it (the end of the
\* reply if there is none).
SegmentAfter(s, i) ==
    LET j == Min({k \in (i + 1)..Len(s) : IsFence(s[k])} \cup {Len(s) + 1})
    IN  [k \in 1..(j - i - 1) |-> s[i + k]]

FirstFence(s) == Min({k \in 1..Len(s) : IsFence(s[k])})

\* C13 (as claimed): with no JSON-tagged fence, the untagged rule applies only
\* to a reply with at least two fence delimiters and takes the content between
\* the first and the second; a reply with exactly one fence delimiter goes to
\* delimiter scanning over the full text.
C13_UntaggedNeedsTwoFences ==
    (hs.pc = "done" /\ hs.response # None /\ ~Contains(hs.response, "FJ")) =>
        hs.json_str =
            ExpectedNarrow(
                Trim(IF FenceCount(hs.response) >= 2
                     THEN SegmentAfter(hs.response, FirstFence(hs.response))
                     ELSE hs.response),
                OpenOf(hs.form), CloseOf(hs.form))

\* C13 (amended): with no JSON-tagged fence, the untagged rule applies as soon
\* as the reply has one fence delimiter and takes the content between the
\* first delimiter and the second, or the end of the reply when there is only
\* one; a reply with exactly one fence delimiter is thus treated as fenced and
\* the text before the fence is dropped.  Only a reply with no fence is
\* scanned in full; the delimiter slice applies to the isolated content too.
C13_UntaggedNeedsOneFence ==
    (hs.pc = "done" /\ hs.response # None /\ ~Contains(hs.response, "FJ")) =>
        hs.json_str =
            ExpectedNarrow(
                Trim(IF FenceCount(hs.response) >= 1
                     THEN SegmentAfter(hs.response, FirstFence(hs.response))
                     ELSE hs.response),
                OpenOf(hs.form), CloseOf(hs.form))

C13_Witness ==
    /\ hs.pc = "done" /\ hs.form = "career"
    /\ hs.response = <<"{", "}", "F">>
    /\ hs.json_str = <<>>
    /\ hs.report = "error" /\ hs.reason = "JSONDecodeError"

\* The fence whose block the handler takes: the first JSON-tagged one if the
\* reply has any, else the first fence.
ChosenFence(s) ==
    IF Contains(s, "FJ") THEN Min({k \in 1..Len(s) : s[k] = "FJ"}) ELSE FirstFence(s)

\* C14 (as claimed): when a reply has several fenced blocks only the first
\* block of the reply is considered, also when it is untagged and a later one
\* is tagged as JSON, and also when it holds no delimiter of the expected shape.
C14_FirstBlockOnly ==
    (hs.pc = "done" /\ hs.response # None /\ FenceCount(hs.response) >= 3) =>
        LET first == Trim(SegmentAfter(hs.response, FirstFence(hs.response)))
        IN  /\ hs.json_str = ExpectedNarrow(first, OpenOf(hs.form), CloseOf(hs.form))
            /\ hs.stored_now => StoredValue(hs).toks = NoSpace(hs.json_str)

\* C14 (amended): when a reply has several fenced blocks, one block only is
\* considered: the first JSON-tagged block if the reply has a JSON-tagged
\* fence, even when an untagged block precedes it, and else the first block.
\* Nothing outside that block is part of the isolated text, also when the
\* block holds no delimiter of the expected shape.
C14_OneBlockTaggedFirst ==
    (hs.pc = "done" /\ hs.response # None /\ FenceCount(hs.response) >= 3) =>
        LET a == ChosenFence(hs.response)
            block == SegmentAfter(hs.response, a)
            inside == {SubSeq(block, lo, hi) : lo \in 1..(Len(block) + 1),
                                               hi \in 0..Len(block)}
        IN  /\ hs.json_str \in inside
            /\ hs.json_str = ExpectedNarrow(Trim(block), OpenOf(hs.form), CloseOf(hs.form))
            /\ (~Contains(block, OpenOf(hs.form)) \/ ~Contains(block, CloseOf(hs.form)))
                  => hs.json_str = Trim(block)
            /\ hs.stored_now => StoredValue(hs).toks = NoSpace(hs.json_str)

C14_Witness ==
    /\ hs.pc = "done" /\ hs.form = "career"
    /\ hs.response = <<"F", "F", "FJ", "{", "}">>
    /\ hs.json_str = <<"{", "}">>
    /\ hs.report = "success"

\* C15 (as claimed): in one process the client handle is constructed at most
\* once and every request reuses it; no request constructs a new client.
C15_SingleClient == clients <= 1

\* C15 (amended): in one process initialize_components runs its body, and so
\* constructs its client, at most once; every career-path or recommender
\* submission reads the credential again and constructs a client of its own,
\* and remote calls are made only within such a submission.
C15_ClientPerSubmission ==
    [][ /\ components # "unset" => components' = components
        /\ clients' \in {clients, clients + 1}
        /\ (components = "unset" /\ components' = "ready") => clients' = clients + 1
        /\ (hs.pc = "idle" /\ hs'.pc = "calling") =>
              (clients' = clients + 1 /\ credential = "key")
        /\ clients' = clients + 1 =>
              \/ components = "unset" /\ components' = "ready"
              \/ hs.pc = "idle" /\ hs'.pc = "calling"
        /\ (rs'.log # rs.log /\ rs'.log # <<>>) => (hs.pc = "calling" /\ clients >= 2)
      ]_vars

C15_Witness ==
    /\ components = "ready" /\ clients = 3
    /\ hs.pc = "calling" /\ Count(rs.log, "net") >= 1

\* C16: every completion of generate_with_retry, for every max_retries, is a
\* return of the text of a successful generate call of that invocation or a
\* raise of a failure signal; it never returns without a successful attempt.
C16_ReturnNeedsSuccess ==
    /\ rs.pc = "returned" =>
          /\ rs.result # None
          /\ \E i \in 1..Len(rs.outcomes) :
                rs.outcomes[i].ok /\ rs.outcomes[i].text = rs.result
    /\ rs.pc = "raised" => rs.raised # NoSignal

====
